---- MODULE Spec2Model ----
(***************************************************************************)
(* Model of the Java structure validator: the structural parser            *)
(* (parser.ts: removeComments, extractClassBodies, parseJavaClasses) and   *)
(* the structural comparator (compare.ts: checkAttributeSignature,         *)
(* checkMethodSignature, compareParsedClasses).                            *)
(*                                                                         *)
(* A JavaScript string is a sequence of one-character strings, so that     *)
(* template literals, join, split, trim and the regular expressions are    *)
(* computed character by character as the code computes them.              *)
(***************************************************************************)
EXTENDS Integers, Sequences, FiniteSets, TLC

VARIABLES
    a,               \* compareParsedClasses: the reference class list (teacher)
    b,               \* compareParsedClasses: the candidate class list (student)
    comparisonTree,  \* compareParsedClasses: the returned ClassComparison[]
    inAttributes,    \* checkAttributeSignature: its argument `attributes`
    inMethods,       \* checkMethodSignature: its argument `methods`
    attrSignature,   \* checkAttributeSignature: the returned entries
    methodSignature, \* checkMethodSignature: the returned entries
    source,          \* removeComments / parseJavaFile: the source text
    stripped,        \* removeComments(source)
    restripped,      \* removeComments(removeComments(source))
    parseResult,     \* parseJavaFile(source): {classes, errors}
    console,         \* the messages written with console.error
    teacherFiles,    \* App: the state teacherFiles
    studentFiles,    \* App: the state studentFiles
    fileList,        \* handleFiles: its argument, the files being read
    filesArray,      \* handleFiles: the array the onload callbacks fill
    pending,         \* handleFiles: the files whose onload has not fired yet
    delivered,       \* handleFiles: the arguments of the calls of onFilesContent
    pc               \* position of the run

compareVars == <<a, b, comparisonTree>>
reduceVars == <<inAttributes, inMethods, attrSignature, methodSignature>>
parseVars == <<source, stripped, restripped, parseResult, console>>
fileVars == <<teacherFiles, studentFiles, fileList, filesArray, pending, delivered>>
vars == <<compareVars, reduceVars, parseVars, fileVars, pc>>

(***************************************************************************)
(* JavaScript values                                                       *)
(***************************************************************************)

\* `undefined`: a sequence no string can equal (strings hold single characters).
Undefined == <<"undefined">>

\* Number -> decimal string, as a template literal `${count}` renders it.
Digit(d) == <<"0", "1", "2", "3", "4", "5", "6", "7", "8", "9">>[d + 1]

RECURSIVE NumberToString(_)
NumberToString(n) ==
    IF n < 10 THEN <<Digit(n)>>
    ELSE NumberToString(n \div 10) \o <<Digit(n % 10)>>

\* Array.prototype.join(sep) over an array of strings.
RECURSIVE Join(_, _)
Join(strs, sep) ==
    IF Len(strs) = 0 THEN <<>>
    ELSE IF Len(strs) = 1 THEN strs[1]
    ELSE strs[1] \o sep \o Join(Tail(strs), sep)

\* String.prototype.split(ch) for a one-character separator: the segments
\* between the separators, empty segments kept.
RECURSIVE SplitFrom(_, _, _)
SplitFrom(s, ch, cur) ==
    IF Len(s) = 0 THEN <<cur>>
    ELSE IF Head(s) = ch THEN <<cur>> \o SplitFrom(Tail(s), ch, <<>>)
    ELSE SplitFrom(Tail(s), ch, Append(cur, Head(s)))

Split(s, ch) == SplitFrom(s, ch, <<>>)

\* Array index that yields undefined past the end (destructuring a short array).
At(arr, i) == IF i <= Len(arr) THEN arr[i] ELSE Undefined

\* [...new Set(arr)]: the distinct elements in first-insertion order.
RECURSIVE SetOrder(_, _)
SetOrder(arr, seen) ==
    IF Len(arr) = 0 THEN <<>>
    ELSE IF Head(arr) \in seen THEN SetOrder(Tail(arr), seen)
    ELSE <<Head(arr)>> \o SetOrder(Tail(arr), seen \cup {Head(arr)})

\* The distinct elements in the order of their last occurrences.
RECURSIVE DistinctKeepingLast(_)
DistinctKeepingLast(arr) ==
    IF Len(arr) = 0 THEN <<>>
    ELSE IF \E i \in 2..Len(arr) : arr[i] = Head(arr) THEN DistinctKeepingLast(Tail(arr))
    ELSE <<Head(arr)>> \o DistinctKeepingLast(Tail(arr))

Distinct(arr) == SetOrder(arr, {})

\* Array.prototype.map.
Map(arr, F(_)) == [i \in 1..Len(arr) |-> F(arr[i])]

\* Array.prototype.filter(...).length.
CountWhere(arr, P(_)) == Cardinality({i \in 1..Len(arr) : P(arr[i])})

\* Array.prototype.find: the first element satisfying P, or undefined.
IndexWhere(arr, P(_)) ==
    IF \E i \in 1..Len(arr) : P(arr[i])
    THEN CHOOSE i \in 1..Len(arr) : P(arr[i]) /\ \A j \in 1..(i - 1) : ~P(arr[j])
    ELSE 0

(***************************************************************************)
(* compare.ts: constants                                                   *)
(***************************************************************************)

BoxA == <<"T", "e", "a", "c", "h", "e", "r">>
BoxB == <<"S", "t", "u", "d", "e", "n", "t">>

Green == "text-green-500"
Red == "text-red-500"
Yellow == "text-yellow-500"

Public == <<"p", "u", "b", "l", "i", "c">>
Private == <<"p", "r", "i", "v", "a", "t", "e">>
Protected == <<"p", "r", "o", "t", "e", "c", "t", "e", "d">>
Default == <<"d", "e", "f", "a", "u", "l", "t">>

(***************************************************************************)
(* compare.ts: the signature reducers                                      *)
(***************************************************************************)

\* `${attr.modifier}|${attr.type}`
AttributeSignatureString(attr) == attr.modifier \o <<"|">> \o attr.type

checkAttributeSignature(attributes) ==
    LET signatures == Distinct(Map(attributes, AttributeSignatureString))
        Entry(signature) ==
            LET parts == Split(signature, "|")
                sigMod == At(parts, 1)
                sigType == At(parts, 2)
                Same(attr) == attr.modifier = sigMod /\ attr.type = sigType
            IN  [modifier |-> sigMod, type |-> sigType,
                 count |-> CountWhere(attributes, Same)]
    IN  Map(signatures, Entry)

\* method.parameters.map((param) => param.type).join(",")
ParamTypes(method) ==
    LET TypeOf(param) == param.type
    IN  Join(Map(method.parameters, TypeOf), <<",">>)

\* `${method.modifier}|${method.returnType}|${paramTypes}`
MethodSignatureString(method) ==
    method.modifier \o <<"|">> \o method.returnType \o <<"|">> \o ParamTypes(method)

checkMethodSignature(methods) ==
    LET signatures == Distinct(Map(methods, MethodSignatureString))
        Entry(signature) ==
            LET parts == Split(signature, "|")
                sigMod == At(parts, 1)
                sigReturn == At(parts, 2)
                sigParam == At(parts, 3)
                Same(method) ==
                    /\ method.modifier = sigMod
                    /\ method.returnType = sigReturn
                    /\ ParamTypes(method) = sigParam
            IN  [modifier |-> sigMod, returnType |-> sigReturn,
                 parameters |-> sigParam, count |-> CountWhere(methods, Same)]
    IN  Map(signatures, Entry)

(***************************************************************************)
(* compare.ts: compareParsedClasses                                        *)
(***************************************************************************)

\* JavaScript truthiness of an optional string.
Truthy(s) == s # Undefined /\ s # <<>>

\* modifier !== "default" ? `${modifier} ` : ""
TempMod(modifier) == IF modifier # Default THEN modifier \o <<" ">> ELSE <<>>

\* ` (Count: ${count})`
CountSuffix(count) ==
    <<" ", "(", "C", "o", "u", "n", "t", ":", " ">> \o NumberToString(count) \o <<")">>

\* ` (${BoxA} [${count}] x ${BoxB} [${matching.count}])`
BothCountsSuffix(count, matchingCount) ==
    <<" ", "(">> \o BoxA \o <<" ", "[">> \o NumberToString(count)
        \o <<"]", " ", "x", " ">> \o BoxB \o <<" ", "[">>
        \o NumberToString(matchingCount) \o <<"]", ")">>

\* `${modifier} ${type}`
AttributeText(e) == e.modifier \o <<" ">> \o e.type

\* `${tempMod}${returnType}(${parameters})`
MethodText(e) == TempMod(e.modifier) \o e.returnType \o <<"(">> \o e.parameters \o <<")">>

\* The entry pushed for a signature of a class that B does not have.
AddedEntry(text, count) ==
    [message |-> <<"+", " ">> \o text \o CountSuffix(count), color |-> Red, count |-> count]

\* DiffEntry with the two count comparisons exchanged: a deficit in B is
\* classified as an excess and an excess as a deficit.
DiffEntryComparisonsExchanged(text, count, hasMatching, matchingCount) ==
    IF ~hasMatching
    THEN [message |-> <<"-", " ">> \o text, color |-> Red]
    ELSE IF matchingCount > count
    THEN [message |-> <<"-", " ">> \o text \o BothCountsSuffix(count, matchingCount),
          color |-> Red]
    ELSE IF matchingCount < count
    THEN [message |-> <<"~", " ">> \o text \o BothCountsSuffix(count, matchingCount),
          color |-> Yellow]
    ELSE [message |-> <<"+", " ">> \o text \o CountSuffix(count),
          color |-> Green, count |-> count]

\* The if / else-if chain on `matching` that classifies one signature of A.
DiffEntry(text, count, hasMatching, matchingCount) ==
    IF ~hasMatching
    THEN [message |-> <<"-", " ">> \o text, color |-> Red]
    ELSE IF matchingCount < count
    THEN [message |-> <<"-", " ">> \o text \o BothCountsSuffix(count, matchingCount),
          color |-> Red]
    ELSE IF matchingCount > count
    THEN [message |-> <<"~", " ">> \o text \o BothCountsSuffix(count, matchingCount),
          color |-> Yellow]
    ELSE [message |-> <<"+", " ">> \o text \o CountSuffix(count),
          color |-> Green, count |-> count]

\* AttributeDiffs with the loop running over B's signatures and the lookup in A's.
AttributeDiffsOverB(aAttrSignature, bAttrSignature) ==
    LET Entry(e) ==
            LET Match(x) == x.modifier = e.modifier /\ x.type = e.type
                m == IndexWhere(aAttrSignature, Match)
            IN  DiffEntry(AttributeText(e), e.count, m # 0,
                          IF m # 0 THEN aAttrSignature[m].count ELSE 0)
    IN  Map(bAttrSignature, Entry)

\* The loop over aAttrSignature with bAttrSignature.find(...).
AttributeDiffs(aAttrSignature, bAttrSignature) ==
    LET Entry(e) ==
            LET Match(x) == x.modifier = e.modifier /\ x.type = e.type
                m == IndexWhere(bAttrSignature, Match)
            IN  DiffEntry(AttributeText(e), e.count, m # 0,
                          IF m # 0 THEN bAttrSignature[m].count ELSE 0)
    IN  Map(aAttrSignature, Entry)

\* The loop over aMethodSignature with bMethodSignature.find(...).
MethodDiffs(aMethodSignature, bMethodSignature) ==
    LET Entry(e) ==
            LET Match(x) ==
                    /\ x.modifier = e.modifier
                    /\ x.returnType = e.returnType
                    /\ x.parameters = e.parameters
                m == IndexWhere(bMethodSignature, Match)
            IN  DiffEntry(MethodText(e), e.count, m # 0,
                          IF m # 0 THEN bMethodSignature[m].count ELSE 0)
    IN  Map(aMethodSignature, Entry)

\* MissingClassNode without `classNode.color = "text-red-500"`: the node keeps
\* the green it was created with.
MissingClassNodeLeftGreen(aClass) ==
    LET AddedAttribute(e) == AddedEntry(AttributeText(e), e.count)
        AddedMethod(e) == AddedEntry(MethodText(e), e.count)
    IN  [name |-> aClass.name, type |-> "class", color |-> Green,
         attributes |-> Map(checkAttributeSignature(aClass.attributes), AddedAttribute),
         methods |-> Map(checkMethodSignature(aClass.methods), AddedMethod),
         extends |-> aClass.extends]

\* The branch `if (!bClass)`: every signature of A's class is pushed as added.
MissingClassNode(aClass) ==
    LET AddedAttribute(e) == AddedEntry(AttributeText(e), e.count)
        AddedMethod(e) == AddedEntry(MethodText(e), e.count)
    IN  [name |-> aClass.name, type |-> "class", color |-> Red,
         attributes |-> Map(checkAttributeSignature(aClass.attributes), AddedAttribute),
         methods |-> Map(checkMethodSignature(aClass.methods), AddedMethod),
         extends |-> aClass.extends]

\* `extends '${x.extends}'` or "didn't extend"
ExtendsText(ext) ==
    IF Truthy(ext)
    THEN <<"e", "x", "t", "e", "n", "d", "s", " ", "'">> \o ext \o <<"'">>
    ELSE <<"d", "i", "d", "n", "'", "t", " ", "e", "x", "t", "e", "n", "d">>

\* InheritanceMessage with the two classes' extends values exchanged.
InheritanceMessageSidesExchanged(aExtends, bExtends) ==
    <<"|", " ">> \o BoxA \o <<" ">> \o ExtendsText(bExtends)
        \o <<" ", "v", "s", " ">> \o BoxB \o <<" ">> \o ExtendsText(aExtends)

\* `| ${BoxA} ${...} vs ${BoxB} ${...}`
InheritanceMessage(aExtends, bExtends) ==
    <<"|", " ">> \o BoxA \o <<" ">> \o ExtendsText(aExtends)
        \o <<" ", "v", "s", " ">> \o BoxB \o <<" ">> \o ExtendsText(bExtends)

\* The color the node ends with when B has the class.
NodeColor(aClass, bClass) ==
    IF aClass.extends # bClass.extends THEN Red ELSE Green

\* The node built when B has the class.
PresentClassNode(aClass, bClass) ==
    LET node ==
            [name |-> aClass.name, type |-> "class",
             color |-> NodeColor(aClass, bClass),
             attributes |-> AttributeDiffs(checkAttributeSignature(aClass.attributes),
                                           checkAttributeSignature(bClass.attributes)),
             methods |-> MethodDiffs(checkMethodSignature(aClass.methods),
                                     checkMethodSignature(bClass.methods)),
             extends |-> aClass.extends]
    IN  IF aClass.extends # bClass.extends
        THEN node @@ [inheritance |->
                        [message |-> InheritanceMessage(aClass.extends, bClass.extends),
                         color |-> Red]]
        ELSE node

\* TeacherClassNames without the Set: one name per record of A.
TeacherClassNamesWithRepeats(classes) ==
    LET NameOf(c) == c.name
    IN  Map(classes, NameOf)

\* new Set(a.map((c) => c.name)), iterated in insertion order.
TeacherClassNames(classes) ==
    LET NameOf(c) == c.name
    IN  Distinct(Map(classes, NameOf))

\* The index of the last class of the name, 0 when there is none.
FindLastClass(classes, className) ==
    IF \E i \in 1..Len(classes) : classes[i].name = className
    THEN CHOOSE i \in 1..Len(classes) :
            /\ classes[i].name = className
            /\ \A j \in (i + 1)..Len(classes) : classes[j].name # className
    ELSE 0

\* classes.find((c) => c.name === className): its index, 0 when there is none.
FindClass(classes, className) ==
    LET Named(c) == c.name = className
    IN  IndexWhere(classes, Named)

compareParsedClasses(ta, tb) ==
    LET Node(className) ==
            LET aClass == ta[FindClass(ta, className)]
                bIdx == FindClass(tb, className)
            IN  IF bIdx = 0 THEN MissingClassNode(aClass)
                ELSE PresentClassNode(aClass, tb[bIdx])
    IN  Map(TeacherClassNames(ta), Node)

(***************************************************************************)
(* parser.ts: removeComments                                               *)
(***************************************************************************)

\* The line terminators: the characters `.` does not match and before which
\* `$` matches under the m flag.
LineTerminators == {"\n", "\r"}

\* s has the two characters c1 c2 at position i.
TwoAt(s, i, c1, c2) == i < Len(s) /\ s[i] = c1 /\ s[i + 1] = c2

\* Where `.*$` stops: the first line terminator at or after i, or the end.
EndOfLine(s, i) ==
    IF \E j \in i..Len(s) : s[j] \in LineTerminators
    THEN CHOOSE j \in i..Len(s) :
            s[j] \in LineTerminators /\ \A k \in i..(j - 1) : s[k] \notin LineTerminators
    ELSE Len(s) + 1

\* Only the first match of /\/\/.*$/m is removed (the g flag left out).
RECURSIVE RemoveFirstLineComment(_, _)
RemoveFirstLineComment(s, i) ==
    IF i > Len(s) THEN <<>>
    ELSE IF TwoAt(s, i, "/", "/") THEN SubSeq(s, EndOfLine(s, i + 2), Len(s))
    ELSE <<s[i]>> \o RemoveFirstLineComment(s, i + 1)

\* source.replace(/\/\/.*$/gm, ""), scanning from position i.
RECURSIVE RemoveLineComments(_, _)
RemoveLineComments(s, i) ==
    IF i > Len(s) THEN <<>>
    ELSE IF TwoAt(s, i, "/", "/") THEN RemoveLineComments(s, EndOfLine(s, i + 2))
    ELSE <<s[i]>> \o RemoveLineComments(s, i + 1)

\* The position of the nearest `*/` at or after i, 0 when there is none.
NextBlockClose(s, i) ==
    IF \E q \in i..Len(s) : TwoAt(s, q, "*", "/")
    THEN CHOOSE q \in i..Len(s) :
            TwoAt(s, q, "*", "/") /\ \A k \in i..(q - 1) : ~TwoAt(s, k, "*", "/")
    ELSE 0

\* withoutLineComments.replace(/\/\*[\s\S]*?\*\//g, ""), scanning from position i.
RECURSIVE RemoveBlockComments(_, _)
RemoveBlockComments(s, i) ==
    IF i > Len(s) THEN <<>>
    ELSE IF TwoAt(s, i, "/", "*") /\ NextBlockClose(s, i + 2) # 0
    THEN RemoveBlockComments(s, NextBlockClose(s, i + 2) + 2)
    ELSE <<s[i]>> \o RemoveBlockComments(s, i + 1)

removeComments(src) ==
    LET withoutLineComments == RemoveLineComments(src, 1)
    IN  RemoveBlockComments(withoutLineComments, 1)

(***************************************************************************)
(* parser.ts: the regular expressions, matched as the engine matches them: *)
(* the leftmost start wins, a run is greedy, alternatives are tried in      *)
(* order.  Positions are 1-based.                                           *)
(***************************************************************************)

\* \s
WhiteSpace == {" ", "\t", "\n", "\r", "\f"}

\* \w
WordChars ==
    LET w == <<"a", "b", "c", "d", "e", "f", "g", "h", "i", "j", "k", "l", "m",
               "n", "o", "p", "q", "r", "s", "t", "u", "v", "w", "x", "y", "z",
               "A", "B", "C", "D", "E", "F", "G", "H", "I", "J", "K", "L", "M",
               "N", "O", "P", "Q", "R", "S", "T", "U", "V", "W", "X", "Y", "Z",
               "0", "1", "2", "3", "4", "5", "6", "7", "8", "9", "_">>
    IN  {w[i] : i \in 1..Len(w)}

\* [\w<>[\]]
TypeChars == WordChars \cup {"<", ">", "[", "]"}

ClassKeyword == <<"c", "l", "a", "s", "s">>
ExtendsKeyword == <<"e", "x", "t", "e", "n", "d", "s">>
ReturnKeyword == <<"r", "e", "t", "u", "r", "n">>
FinalKeyword == <<"f", "i", "n", "a", "l">>

\* errors.push("No class declarations found.")
NoClassDeclarations ==
    <<"N", "o", " ", "c", "l", "a", "s", "s", " ", "d", "e", "c", "l", "a", "r", "a",
      "t", "i", "o", "n", "s", " ", "f", "o", "u", "n", "d", ".">>

\* `Error: Unmatched braces in class "${className}"`
UnmatchedBraces(className) ==
    <<"E", "r", "r", "o", "r", ":", " ", "U", "n", "m", "a", "t", "c", "h", "e", "d",
      " ", "b", "r", "a", "c", "e", "s", " ", "i", "n", " ", "c", "l", "a", "s", "s",
      " ", "\"">> \o className \o <<"\"">>

\* The result of a failed match.
NoMatch == [found |-> FALSE]

\* s has the character ch at position i.
CharAt(s, i, ch) == i <= Len(s) /\ s[i] = ch

\* s has the characters of lit from position i on.
LiteralAt(s, i, lit) ==
    i + Len(lit) - 1 <= Len(s) /\ SubSeq(s, i, i + Len(lit) - 1) = lit

\* Where the greedy run of characters of cls that starts at i ends: the first
\* position at or after i whose character is not in cls.
RECURSIVE RunEnd(_, _, _)
RunEnd(s, i, cls) ==
    IF i <= Len(s) /\ s[i] \in cls THEN RunEnd(s, i + 1, cls) ELSE i

\* The first position at or after i whose character is in cls, Len(s) + 1
\* when there is none.
RECURSIVE NextOf(_, _, _)
NextOf(s, i, cls) ==
    IF i <= Len(s) /\ s[i] \notin cls THEN NextOf(s, i + 1, cls) ELSE i

\* String.prototype.trim.
RECURSIVE TrimEnd(_)
TrimEnd(s) ==
    IF Len(s) > 0 /\ s[Len(s)] \in WhiteSpace THEN TrimEnd(SubSeq(s, 1, Len(s) - 1))
    ELSE s

Trim(s) == TrimEnd(SubSeq(s, RunEnd(s, 1, WhiteSpace), Len(s)))

(***************************************************************************)
(* parser.ts: extractClassBodies                                           *)
(***************************************************************************)

\* /class\s+(\w+)(?:\s+extends\s+(\w+))?\s*\{/ tried at position i; last is the
\* position of the `{` that ends the match.
ClassMatchAt(s, i) ==
    LET nameStart == RunEnd(s, i + 5, WhiteSpace)
        nameEnd == RunEnd(s, nameStart, WordChars)
        afterName == RunEnd(s, nameEnd, WhiteSpace)
        extStart == RunEnd(s, afterName + 7, WhiteSpace)
        extEnd == RunEnd(s, extStart, WordChars)
        afterExt == RunEnd(s, extEnd, WhiteSpace)
    IN  IF ~(LiteralAt(s, i, ClassKeyword) /\ nameStart > i + 5 /\ nameEnd > nameStart)
        THEN NoMatch
        ELSE IF /\ afterName > nameEnd
                /\ LiteralAt(s, afterName, ExtendsKeyword)
                /\ extStart > afterName + 7
                /\ extEnd > extStart
                /\ CharAt(s, afterExt, "{")
        THEN [found |-> TRUE, name |-> SubSeq(s, nameStart, nameEnd - 1),
              extendsFrom |-> SubSeq(s, extStart, extEnd - 1), last |-> afterExt]
        ELSE IF CharAt(s, afterName, "{")
        THEN [found |-> TRUE, name |-> SubSeq(s, nameStart, nameEnd - 1),
              extendsFrom |-> Undefined, last |-> afterName]
        ELSE NoMatch

\* classRegex.exec(javaSource) with lastIndex at position i.
RECURSIVE ClassExec(_, _)
ClassExec(s, i) ==
    IF i > Len(s) THEN NoMatch
    ELSE IF ClassMatchAt(s, i).found THEN ClassMatchAt(s, i)
    ELSE ClassExec(s, i + 1)

\* while (endIdx < javaSource.length && braceCount > 0) { endIdx++; ... }
\* endIdx is a position here, so the guard reads endIdx <= Len(s).
RECURSIVE BraceLoop(_, _, _)
BraceLoop(s, endIdx, braceCount) ==
    IF endIdx <= Len(s) /\ braceCount > 0
    THEN LET opened == IF CharAt(s, endIdx + 1, "{") THEN 1 ELSE 0
             closed == IF CharAt(s, endIdx + 1, "}") THEN 1 ELSE 0
         IN  BraceLoop(s, endIdx + 1, braceCount + opened - closed)
    ELSE [endIdx |-> endIdx, braceCount |-> braceCount]

\* The loop of extractClassBodies from lastIndex i on: the declarations
\* pushed, and the messages handed to console.error.
RECURSIVE ExtractFrom(_, _)
ExtractFrom(s, i) ==
    LET match == ClassExec(s, i)
        startIdx == match.last
        scan == BraceLoop(s, startIdx, 1)
        classBody == Trim(SubSeq(s, startIdx + 1, scan.endIdx - 1))
        rest == ExtractFrom(s, startIdx + 1)
    IN  IF ~match.found THEN [classes |-> <<>>, logged |-> <<>>]
        ELSE IF scan.braceCount = 0
        THEN [classes |-> <<[name |-> match.name, extendsFrom |-> match.extendsFrom,
                             body |-> classBody]>> \o rest.classes,
              logged |-> rest.logged]
        ELSE [classes |-> rest.classes,
              logged |-> <<UnmatchedBraces(match.name)>> \o rest.logged]

extractClassBodies(javaSource) == ExtractFrom(javaSource, 1)

(***************************************************************************)
(* parser.ts: parseJavaAttributes, parseJavaMethods                        *)
(***************************************************************************)

Modifiers == <<Public, Private, Protected>>

\* (public|private|protected)\s+ tried at position i; next is the position
\* after the white space.
ModifierAt(s, i) ==
    LET Matches(k) ==
            /\ LiteralAt(s, i, Modifiers[k])
            /\ RunEnd(s, i + Len(Modifiers[k]), WhiteSpace) > i + Len(Modifiers[k])
    IN  IF \E k \in 1..3 : Matches(k)
        THEN LET k == CHOOSE k \in 1..3 : Matches(k)
             IN  [found |-> TRUE, modifier |-> Modifiers[k],
                  next |-> RunEnd(s, i + Len(Modifiers[k]), WhiteSpace)]
        ELSE NoMatch

\* ([\w<>[\]]+)\s+(\w+)\s* tried at position i; next is the position after
\* the trailing white space.
DeclaratorAt(s, i) ==
    LET typeEnd == RunEnd(s, i, TypeChars)
        nameStart == RunEnd(s, typeEnd, WhiteSpace)
        nameEnd == RunEnd(s, nameStart, WordChars)
    IN  IF typeEnd > i /\ nameStart > typeEnd /\ nameEnd > nameStart
        THEN [found |-> TRUE, type |-> SubSeq(s, i, typeEnd - 1),
              name |-> SubSeq(s, nameStart, nameEnd - 1),
              next |-> RunEnd(s, nameEnd, WhiteSpace)]
        ELSE NoMatch

\* attributeRegex tried at position i: with the modifier group first, then
\* without it; `(match[1]) || "default"` fills the modifier in.
AttributeMatchAt(s, i) ==
    LET mod == ModifierAt(s, i)
        withMod == IF mod.found THEN DeclaratorAt(s, mod.next) ELSE NoMatch
        without == DeclaratorAt(s, i)
    IN  IF withMod.found /\ CharAt(s, withMod.next, ";")
        THEN [found |-> TRUE, modifier |-> mod.modifier, type |-> withMod.type,
              name |-> withMod.name, last |-> withMod.next]
        ELSE IF without.found /\ CharAt(s, without.next, ";")
        THEN [found |-> TRUE, modifier |-> Default, type |-> without.type,
              name |-> without.name, last |-> without.next]
        ELSE NoMatch

\* attributeRegex.exec(classBody) with lastIndex at position i.
RECURSIVE AttributeExec(_, _)
AttributeExec(s, i) ==
    IF i > Len(s) THEN NoMatch
    ELSE IF AttributeMatchAt(s, i).found THEN AttributeMatchAt(s, i)
    ELSE AttributeExec(s, i + 1)

RECURSIVE AttributesFrom(_, _)
AttributesFrom(s, i) ==
    LET match == AttributeExec(s, i)
    IN  IF ~match.found THEN <<>>
        ELSE (IF match.type # ReturnKeyword
              THEN <<[modifier |-> match.modifier, type |-> match.type,
                      name |-> match.name]>>
              ELSE <<>>) \o AttributesFrom(s, match.last + 1)

parseJavaAttributes(classBody) == AttributesFrom(classBody, 1)

\* \(([^)]*)\)(?=\s*\{) after a declarator that ends before position i.
ParameterListAt(s, i) ==
    LET close == NextOf(s, i + 1, {")"})
    IN  IF /\ CharAt(s, i, "(")
           /\ close <= Len(s)
           /\ CharAt(s, RunEnd(s, close + 1, WhiteSpace), "{")
        THEN [found |-> TRUE, params |-> SubSeq(s, i + 1, close - 1), last |-> close]
        ELSE NoMatch

\* methodRegex tried at position i.
MethodMatchAt(s, i) ==
    LET mod == ModifierAt(s, i)
        withMod == IF mod.found THEN DeclaratorAt(s, mod.next) ELSE NoMatch
        without == DeclaratorAt(s, i)
        listWithMod == IF withMod.found THEN ParameterListAt(s, withMod.next) ELSE NoMatch
        listWithout == IF without.found THEN ParameterListAt(s, without.next) ELSE NoMatch
    IN  IF listWithMod.found
        THEN [found |-> TRUE, modifier |-> mod.modifier, returnType |-> withMod.type,
              methodName |-> withMod.name, params |-> listWithMod.params,
              last |-> listWithMod.last]
        ELSE IF listWithout.found
        THEN [found |-> TRUE, modifier |-> Default, returnType |-> without.type,
              methodName |-> without.name, params |-> listWithout.params,
              last |-> listWithout.last]
        ELSE NoMatch

\* methodRegex.exec(classBody) with lastIndex at position i.
RECURSIVE MethodExec(_, _)
MethodExec(s, i) ==
    IF i > Len(s) THEN NoMatch
    ELSE IF MethodMatchAt(s, i).found THEN MethodMatchAt(s, i)
    ELSE MethodExec(s, i + 1)

\* param.split(/\s+/): the pieces between the runs of white space, from
\* position i on.
RECURSIVE SplitSpaces(_, _)
SplitSpaces(s, i) ==
    LET pieceEnd == NextOf(s, i, WhiteSpace)
    IN  IF pieceEnd > Len(s) THEN <<SubSeq(s, i, Len(s))>>
        ELSE <<SubSeq(s, i, pieceEnd - 1)>> \o SplitSpaces(s, RunEnd(s, pieceEnd, WhiteSpace))

\* The body of `for (const param of params)`: the ParameterInfo pushed for
\* one parameter text, if any.
ParameterOf(param) ==
    LET split == SplitSpaces(param, 1)
        parts == IF split[1] = FinalKeyword THEN Tail(split) ELSE split
        type == Join(SubSeq(parts, 1, Len(parts) - 1), <<" ">>)
        name == parts[Len(parts)]
    IN  IF Len(parts) < 2 THEN <<>>
        ELSE IF type # <<>> /\ name # <<>> THEN <<[type |-> type, name |-> name]>>
        ELSE <<>>

\* paramsStr.split(",").map(trim).filter(non-empty), then the loop over it.
RECURSIVE ParametersFrom(_, _)
ParametersFrom(pieces, k) ==
    IF k > Len(pieces) THEN <<>>
    ELSE (IF Len(Trim(pieces[k])) > 0 THEN ParameterOf(Trim(pieces[k])) ELSE <<>>)
         \o ParametersFrom(pieces, k + 1)

ParametersOf(captured) ==
    LET paramsStr == Trim(captured)
    IN  IF paramsStr = <<>> THEN <<>> ELSE ParametersFrom(Split(paramsStr, ","), 1)

RECURSIVE MethodsFrom(_, _)
MethodsFrom(s, i) ==
    LET match == MethodExec(s, i)
    IN  IF ~match.found THEN <<>>
        ELSE <<[modifier |-> match.modifier, returnType |-> match.returnType,
                methodName |-> match.methodName,
                parameters |-> ParametersOf(match.params)]>>
             \o MethodsFrom(s, match.last + 1)

parseJavaMethods(classBody) == MethodsFrom(classBody, 1)

(***************************************************************************)
(* parser.ts: parseJavaClasses, parseJavaFile                              *)
(***************************************************************************)

parseJavaClasses(javaSource) ==
    LET classes == extractClassBodies(javaSource).classes
    IN  IF Len(classes) = 0
        THEN [classes |-> <<>>, errors |-> <<NoClassDeclarations>>]
        ELSE [classes |->
                [k \in 1..Len(classes) |->
                    [name |-> classes[k].name,
                     extends |-> classes[k].extendsFrom,
                     attributes |-> parseJavaAttributes(classes[k].body),
                     methods |-> parseJavaMethods(classes[k].body)]],
              errors |-> <<>>]

\* No step of the try block throws, so the catch branch is never taken.
parseJavaFile(src) ==
    LET uncommentedSource == removeComments(src)
    IN  parseJavaClasses(uncommentedSource)

(***************************************************************************)
(* Inputs of the comparator: ClassInfo lists as the parser builds them      *)
(* (name, extends, attributes, methods), drawn from small pools and bounded *)
(* by their total size.                                                     *)
(***************************************************************************)

\* Bound: 2 * (class records) + (member records), summed over both lists.
MaxSize == 7

TypeInt == <<"i", "n", "t">>
TypeString == <<"S", "t", "r", "i", "n", "g">>
TypeVoid == <<"v", "o", "i", "d">>

ClassNames == {<<"X">>, <<"Y">>}
ExtendsValues == {Undefined, <<"P">>, <<"Q">>}

AttributePool ==
    {[modifier |-> Public, type |-> TypeInt, name |-> <<"x">>],
     [modifier |-> Default, type |-> TypeInt, name |-> <<"y">>],
     [modifier |-> Public, type |-> TypeString, name |-> <<"z">>]}

MethodPool ==
    {[modifier |-> Public, returnType |-> TypeVoid, methodName |-> <<"f">>,
      parameters |-> <<[type |-> TypeInt, name |-> <<"n">>],
                       [type |-> TypeString, name |-> <<"s">>]>>],
     [modifier |-> Public, returnType |-> TypeVoid, methodName |-> <<"h">>,
      parameters |-> <<[type |-> TypeInt, name |-> <<"i">>],
                       [type |-> TypeString, name |-> <<"t">>]>>],
     [modifier |-> Default, returnType |-> TypeInt, methodName |-> <<"g">>,
      parameters |-> <<>>]}

\* The class records of size k: one record (2) and k - 2 members.
ClassesOfSize(k) ==
    UNION {
        {[name |-> n, extends |-> e, attributes |-> as, methods |-> ms] :
            n \in ClassNames, e \in ExtendsValues,
            as \in [1..i -> AttributePool], ms \in [1..(k - 2 - i) -> MethodPool]}
        : i \in 0..(k - 2)}

\* ClassesOfSize, tabulated.
ClassesBySize == [k \in 2..MaxSize |-> ClassesOfSize(k)]

\* The pairs of class lists within the size bound, each drawn once: first the
\* records of a, then the records of b.
RECURSIVE Inputs(_, _, _, _)
Inputs(budget, ta, tb, side) ==
    \/ /\ side = "a"
       /\ Inputs(budget, ta, tb, "b")
    \/ /\ side = "b"
       /\ a = ta
       /\ b = tb
    \/ \E k \in 2..budget : \E c \in ClassesBySize[k] :
          IF side = "a" THEN Inputs(budget - k, Append(ta, c), tb, "a")
          ELSE Inputs(budget - k, ta, Append(tb, c), "b")

\* The variables of the other runs, which a run leaves at their initial values.
NoCompare == a = <<>> /\ b = <<>> /\ comparisonTree = <<>>
NoReduce ==
    /\ inAttributes = <<>>
    /\ inMethods = <<>>
    /\ attrSignature = <<>>
    /\ methodSignature = <<>>
NoFiles ==
    /\ teacherFiles = <<>>
    /\ studentFiles = <<>>
    /\ fileList = <<>>
    /\ filesArray = <<>>
    /\ pending = {}
    /\ delivered = <<>>
NoParse ==
    /\ source = <<>>
    /\ stripped = <<>>
    /\ restripped = <<>>
    /\ parseResult = [classes |-> <<>>, errors |-> <<>>]
    /\ console = <<>>

Init ==
    /\ Inputs(MaxSize, <<>>, <<>>, "a")
    /\ comparisonTree = <<>>
    /\ NoReduce
    /\ NoParse
    /\ NoFiles
    /\ pc = "input"

\* const resultTree = compareParsedClasses(teacherClasses, studentClasses)
Compare ==
    /\ pc = "input"
    /\ comparisonTree' = compareParsedClasses(a, b)
    /\ pc' = "done"
    /\ UNCHANGED <<a, b, reduceVars, parseVars, fileVars>>

Next == Compare

Spec == Init /\ [][Next]_vars

(***************************************************************************)
(* Properties of the comparator.  The signatures, counts and orders below  *)
(* are computed from the input records themselves, not by the reducers.    *)
(***************************************************************************)

\* seq[i] is the first occurrence of its value in seq.
FirstOccurrence(seq, i) == \A j \in 1..(i - 1) : seq[j] # seq[i]

\* The number of distinct values of seq that first occur at or before position i.
Rank(seq, i) == Cardinality({j \in 1..i : FirstOccurrence(seq, j)})

Occurrences(seq, x) == Cardinality({i \in 1..Len(seq) : seq[i] = x})

Range(seq) == {seq[i] : i \in 1..Len(seq)}

\* The structural signatures: (modifier, type) and
\* (modifier, returnType, parameter types in order).
AttributeSignatures(attrList) ==
    [i \in 1..Len(attrList) |-> <<attrList[i].modifier, attrList[i].type>>]

MethodSignatures(methodList) ==
    [i \in 1..Len(methodList) |->
        <<methodList[i].modifier, methodList[i].returnType,
          [p \in 1..Len(methodList[i].parameters) |-> methodList[i].parameters[p].type]>>]

\* How a diff entry names a signature: "public int", "void(int,String)".
AttributeSignatureText(sig) == sig[1] \o <<" ">> \o sig[2]

MethodSignatureText(sig) ==
    (IF sig[1] = Default THEN <<>> ELSE sig[1] \o <<" ">>)
        \o sig[2] \o <<"(">> \o Join(sig[3], <<",">>) \o <<")">>

IsPrefix(pre, s) == Len(pre) <= Len(s) /\ SubSeq(s, 1, Len(pre)) = pre

\* The entry is about the signature with this text: its message is a two-character
\* marker, the text, and then nothing or a parenthesised note.
EntryAbout(entry, text) ==
    LET body == SubSeq(entry.message, 3, Len(entry.message))
    IN  /\ IsPrefix(text, body)
        /\ \/ Len(body) = Len(text)
           \/ IsPrefix(text \o <<" ", "(">>, body)

Marker(entry) == SubSeq(entry.message, 1, 2)

\* " (Teacher [cA] x Student [cB])"
BothCountsNote(cA, cB) ==
    <<" ", "(", "T", "e", "a", "c", "h", "e", "r", " ", "[">> \o NumberToString(cA)
        \o <<"]", " ", "x", " ", "S", "t", "u", "d", "e", "n", "t", " ", "[">>
        \o NumberToString(cB) \o <<"]", ")">>

\* " (Count: c)"
CountNote(c) ==
    <<" ", "(", "C", "o", "u", "n", "t", ":", " ">> \o NumberToString(c) \o <<")">>

\* The earliest record with this name.
Earliest(classes, name) ==
    classes[CHOOSE i \in 1..Len(classes) :
                classes[i].name = name /\ \A j \in 1..(i - 1) : classes[j].name # name]

HasClass(classes, name) == \E i \in 1..Len(classes) : classes[i].name = name

\* The nodes of classes that B has too, and of classes that B lacks.
PresentNodes == {k \in 1..Len(comparisonTree) : HasClass(b, comparisonTree[k].name)}
MissingNodes == {k \in 1..Len(comparisonTree) : ~HasClass(b, comparisonTree[k].name)}

IsOkEntry(entry) == entry.color = Green /\ Marker(entry) = <<"+", " ">>

AllEntries(node) == Range(node.attributes) \cup Range(node.methods)

ClassNameSeq(classes) == [i \in 1..Len(classes) |-> classes[i].name]

\* C2: compare returns exactly one node per distinct class name of A, in the
\* order in which the names first occur in A; a name that occurs only in B
\* has no node.
C2_OneNodePerNameInOrder ==
    pc = "done" =>
        LET names == ClassNameSeq(a)
        IN  /\ Len(comparisonTree) = Cardinality(Range(names))
            /\ \A i \in 1..Len(a) :
                  FirstOccurrence(names, i) =>
                      comparisonTree[Rank(names, i)].name = names[i]
            /\ \A j \in 1..Len(b) :
                  ~HasClass(a, b[j].name) =>
                      \A k \in 1..Len(comparisonTree) : comparisonTree[k].name # b[j].name

\* Witness of C2: a name occurs twice in A, another name occurs only in B, and
\* the result holds the single node of A's name.
C2_Witness ==
    /\ pc = "done"
    /\ Len(a) = 2
    /\ a[1].name = a[2].name
    /\ \E j \in 1..Len(b) : b[j].name # a[1].name
    /\ Len(comparisonTree) = 1

\* The entries of one diff list stand one to one for the distinct signatures
\* of A's members, and none is about a signature that only B has.
OneEntryPerSignature(entries, aSigs, bSigs, Text(_)) ==
    /\ Len(entries) = Cardinality(Range(aSigs))
    /\ \A sig \in Range(aSigs) :
          Cardinality({i \in 1..Len(entries) : EntryAbout(entries[i], Text(sig))}) = 1
    /\ \A sig \in Range(bSigs) \ Range(aSigs) :
          \A i \in 1..Len(entries) : ~EntryAbout(entries[i], Text(sig))

\* B has every signature of A with the same count (and possibly more signatures).
CoversWithSameCounts(aSigs, bSigs) ==
    \A sig \in Range(aSigs) : Occurrences(bSigs, sig) = Occurrences(aSigs, sig)

\* C3: for a class in both A and B the attribute diff list has exactly one entry
\* per distinct attribute signature of A's class and none for a signature only
\* B's class has, and likewise the method diff list; when B's class has every
\* signature of A's class with the same count, plus extra ones, every entry is ok.
C3_OnlySignaturesOfA ==
    pc = "done" =>
        \A k \in PresentNodes :
            LET node == comparisonTree[k]
                aAttrs == AttributeSignatures(Earliest(a, node.name).attributes)
                bAttrs == AttributeSignatures(Earliest(b, node.name).attributes)
                aMeths == MethodSignatures(Earliest(a, node.name).methods)
                bMeths == MethodSignatures(Earliest(b, node.name).methods)
            IN  /\ OneEntryPerSignature(node.attributes, aAttrs, bAttrs,
                                        AttributeSignatureText)
                /\ OneEntryPerSignature(node.methods, aMeths, bMeths, MethodSignatureText)
                /\ CoversWithSameCounts(aAttrs, bAttrs) =>
                      \A i \in 1..Len(node.attributes) : IsOkEntry(node.attributes[i])
                /\ CoversWithSameCounts(aMeths, bMeths) =>
                      \A i \in 1..Len(node.methods) : IsOkEntry(node.methods[i])

\* Witness of C3: B's class has A's one attribute signature with the same count
\* and one more signature, and the only attribute entry is ok.
C3_Witness ==
    /\ pc = "done"
    /\ \E k \in PresentNodes :
        LET node == comparisonTree[k]
            aAttrs == AttributeSignatures(Earliest(a, node.name).attributes)
            bAttrs == AttributeSignatures(Earliest(b, node.name).attributes)
        IN  /\ Len(aAttrs) = 1
            /\ CoversWithSameCounts(aAttrs, bAttrs)
            /\ Range(bAttrs) \ Range(aAttrs) # {}
            /\ Len(node.attributes) = 1
            /\ IsOkEntry(node.attributes[1])

\* The entry that the counts cA (in A's class) and cB (in B's class) call for.
ClassifiedBy(entry, text, cA, cB) ==
    IF cB = 0
    THEN /\ entry.message = <<"-", " ">> \o text
         /\ entry.color = Red
         /\ "count" \notin DOMAIN entry
    ELSE IF cB < cA
    THEN /\ entry.message = <<"-", " ">> \o text \o BothCountsNote(cA, cB)
         /\ entry.color = Red
         /\ "count" \notin DOMAIN entry
    ELSE IF cB > cA
    THEN /\ entry.message = <<"~", " ">> \o text \o BothCountsNote(cA, cB)
         /\ entry.color = Yellow
         /\ "count" \notin DOMAIN entry
    ELSE /\ entry.message = <<"+", " ">> \o text \o CountNote(cA)
         /\ entry.color = Green
         /\ "count" \in DOMAIN entry
         /\ entry.count = cA

EntriesClassified(entries, aSigs, bSigs, Text(_)) ==
    \A sig \in Range(aSigs) :
        \A i \in 1..Len(entries) :
            EntryAbout(entries[i], Text(sig)) =>
                ClassifiedBy(entries[i], Text(sig),
                             Occurrences(aSigs, sig), Occurrences(bSigs, sig))

\* C4: for a class in both A and B, the entry of each signature of A's class
\* (count cA) is decided by B's count cB: absent gives a red "-" entry without
\* counts, cB < cA a red "-" entry with both counts, cB > cA a yellow "~" entry
\* with both counts, cB = cA a green entry whose count is cA.
C4_EntryClassifiedByCounts ==
    pc = "done" =>
        \A k \in PresentNodes :
            LET node == comparisonTree[k]
            IN  /\ EntriesClassified(node.attributes,
                        AttributeSignatures(Earliest(a, node.name).attributes),
                        AttributeSignatures(Earliest(b, node.name).attributes),
                        AttributeSignatureText)
                /\ EntriesClassified(node.methods,
                        MethodSignatures(Earliest(a, node.name).methods),
                        MethodSignatures(Earliest(b, node.name).methods),
                        MethodSignatureText)

\* Witness of C4: a method signature that A's class has twice and B's class once
\* has a red "-" entry whose message carries both counts.
C4_Witness ==
    /\ pc = "done"
    /\ \E k \in PresentNodes :
        LET node == comparisonTree[k]
            aMeths == MethodSignatures(Earliest(a, node.name).methods)
            bMeths == MethodSignatures(Earliest(b, node.name).methods)
        IN  \E sig \in Range(aMeths) :
                /\ Occurrences(aMeths, sig) = 2
                /\ Occurrences(bMeths, sig) = 1
                /\ \E i \in 1..Len(node.methods) :
                      /\ node.methods[i].color = Red
                      /\ node.methods[i].message =
                            <<"-", " ">> \o MethodSignatureText(sig) \o BothCountsNote(2, 1)

\* Every signature of A's member list has exactly one red "+" entry carrying
\* its count, and there is no other entry.
AllAdded(entries, aSigs, Text(_)) ==
    /\ Len(entries) = Cardinality(Range(aSigs))
    /\ \A sig \in Range(aSigs) :
          Cardinality({i \in 1..Len(entries) :
              /\ entries[i].message =
                    <<"+", " ">> \o Text(sig) \o CountNote(Occurrences(aSigs, sig))
              /\ entries[i].color = Red
              /\ "count" \in DOMAIN entries[i]
              /\ entries[i].count = Occurrences(aSigs, sig)}) = 1

\* C5: a class name of A with no record in B (B may be empty) gets one red node
\* whose attribute and method lists hold exactly one added entry, with its
\* count, per distinct signature of A's class, and no inheritance note.
C5_MissingClassAllAdded ==
    pc = "done" =>
        \A k \in MissingNodes :
            LET node == comparisonTree[k]
                aClass == Earliest(a, node.name)
            IN  /\ node.color = Red
                /\ "inheritance" \notin DOMAIN node
                /\ AllAdded(node.attributes, AttributeSignatures(aClass.attributes),
                            AttributeSignatureText)
                /\ AllAdded(node.methods, MethodSignatures(aClass.methods),
                            MethodSignatureText)

\* Witness of C5: B is empty, A's class has an attribute signature twice and a
\* method, and its node is red with one entry in each list.
C5_Witness ==
    /\ pc = "done"
    /\ b = <<>>
    /\ Len(a) = 1
    /\ Len(a[1].attributes) = 2
    /\ a[1].attributes[1].type = a[1].attributes[2].type
    /\ a[1].attributes[1].modifier = a[1].attributes[2].modifier
    /\ Len(a[1].methods) = 1
    /\ Len(comparisonTree) = 1
    /\ comparisonTree[1].color = Red
    /\ Len(comparisonTree[1].attributes) = 1
    /\ comparisonTree[1].attributes[1].count = 2
    /\ Len(comparisonTree[1].methods) = 1

\* How the inheritance note words one side.
SideText(ext) ==
    IF ext = Undefined
    THEN <<"d", "i", "d", "n", "'", "t", " ", "e", "x", "t", "e", "n", "d">>
    ELSE <<"e", "x", "t", "e", "n", "d", "s", " ", "'">> \o ext \o <<"'">>

\* C7: for a class in both A and B the node has an inheritance note exactly when
\* the two extends values differ; the note words A's side and then B's side
\* ("extends '<name>'" or "didn't extend") and the node is red.
C7_InheritanceNoteIffExtendsDiffer ==
    pc = "done" =>
        \A k \in PresentNodes :
            LET node == comparisonTree[k]
                aExt == Earliest(a, node.name).extends
                bExt == Earliest(b, node.name).extends
            IN  /\ "inheritance" \in DOMAIN node <=> aExt # bExt
                /\ aExt # bExt =>
                      /\ node.color = Red
                      /\ node.inheritance.message =
                            <<"|", " ", "T", "e", "a", "c", "h", "e", "r", " ">>
                                \o SideText(aExt)
                                \o <<" ", "v", "s", " ", "S", "t", "u", "d", "e", "n", "t", " ">>
                                \o SideText(bExt)

\* Witness of C7: A's class extends a superclass, B's class of that name extends
\* nothing, and the node has the note.
C7_Witness ==
    /\ pc = "done"
    /\ \E k \in PresentNodes :
        LET node == comparisonTree[k]
        IN  /\ Earliest(a, node.name).extends # Undefined
            /\ Earliest(b, node.name).extends = Undefined
            /\ "inheritance" \in DOMAIN node
            /\ node.color = Red

\* C1 as claimed: the node of a class in both A and B is red when the extends
\* values differ or some attribute or method entry is not an ok entry, and
\* green otherwise.
C1_MismatchIffAnyDifference ==
    pc = "done" =>
        \A k \in PresentNodes :
            LET node == comparisonTree[k]
                differs ==
                    \/ Earliest(a, node.name).extends # Earliest(b, node.name).extends
                    \/ \E e \in AllEntries(node) : ~IsOkEntry(e)
            IN  node.color = IF differs THEN Red ELSE Green

\* "Class number mismatch Teacher:[..] Student:[..]": the text by which the
\* class count advisory is recognised.
ClassCountAdvisoryHead ==
    <<"C", "l", "a", "s", "s", " ", "n", "u", "m", "b", "e", "r", " ",
      "m", "i", "s", "m", "a", "t", "c", "h">>

\* The returned value holds a class count advisory: an element that is not a
\* class node, or a message of a node that states the count mismatch.
CarriesClassCountAdvisory(result) ==
    \E k \in 1..Len(result) :
        \/ result[k].type # "class"
        \/ \E e \in AllEntries(result[k]) : IsPrefix(ClassCountAdvisoryHead, e.message)
        \/ /\ "inheritance" \in DOMAIN result[k]
           /\ IsPrefix(ClassCountAdvisoryHead, result[k].inheritance.message)

\* C8 as claimed: the result of compare carries a class count advisory exactly
\* when A and B hold different numbers of class records.
C8_ClassCountAdvisory ==
    pc = "done" =>
        (CarriesClassCountAdvisory(comparisonTree) <=> Len(a) # Len(b))

(***************************************************************************)
(* The comment stripping run: removeComments on a source text and then on   *)
(* its own output.                                                          *)
(***************************************************************************)

\* Bound: the length of the source text.
MaxSourceLen == 7

\* The characters of the source texts: the two comment characters, a line
\* break and one other character.
CommentAlphabet == {"/", "*", "\n", "x"}

InitStrip ==
    /\ \E n \in 0..MaxSourceLen : source \in [1..n -> CommentAlphabet]
    /\ stripped = <<>>
    /\ restripped = <<>>
    /\ parseResult = [classes |-> <<>>, errors |-> <<>>]
    /\ console = <<>>
    /\ NoCompare
    /\ NoReduce
    /\ NoFiles
    /\ pc = "input"

\* const uncommentedSource = removeComments(source)
Strip ==
    /\ pc = "input"
    /\ stripped' = removeComments(source)
    /\ pc' = "stripped"
    /\ UNCHANGED <<source, restripped, parseResult, console, compareVars, reduceVars, fileVars>>

\* removeComments applied to the stripped text.
StripAgain ==
    /\ pc = "stripped"
    /\ restripped' = removeComments(stripped)
    /\ pc' = "done"
    /\ UNCHANGED <<source, stripped, parseResult, console, compareVars, reduceVars, fileVars>>

NextStrip == Strip \/ StripAgain

SpecStrip == InitStrip /\ [][NextStrip]_vars

\* C9: stripping the comments of an already stripped text changes nothing.
C9_StripIdempotent == pc = "done" => restripped = stripped

\* Witness of C9: the first pass removed a comment and left a block comment
\* opener that nothing closes (as in "/*/"), and the second pass ran on it.
C9_Witness ==
    /\ pc = "done"
    /\ Len(stripped) < Len(source)
    /\ \E i \in 1..Len(stripped) : TwoAt(stripped, i, "/", "*")
    /\ \E i \in 1..Len(stripped) : TwoAt(stripped, i, "*", "/")
    /\ restripped = stripped

(***************************************************************************)
(* The parsing run: parseJavaFile on a source text put together from        *)
(* fragments of Java.                                                       *)
(***************************************************************************)

\* Bound: the number of fragments of the source text.
MaxFragments == 4

\* "class A{", "class B extends A {", "}", "private int x;",
\* "public void f(int n){}" and the line comment "//}" with its line break.
Fragments ==
    << <<"c", "l", "a", "s", "s", " ", "A", "{">>,
       <<"c", "l", "a", "s", "s", " ", "B", " ", "e", "x", "t", "e", "n", "d", "s", " ",
         "A", " ", "{">>,
       <<"}">>,
       <<"p", "r", "i", "v", "a", "t", "e", " ", "i", "n", "t", " ", "x", ";">>,
       <<"p", "u", "b", "l", "i", "c", " ", "v", "o", "i", "d", " ", "f", "(", "i", "n",
         "t", " ", "n", ")", "{", "}">>,
       <<"/", "/", "}", "\n">> >>

\* The text of the fragments picked by the index sequence f.
RECURSIVE Concat(_)
Concat(f) == IF Len(f) = 0 THEN <<>> ELSE Fragments[Head(f)] \o Concat(Tail(f))

InitParse ==
    /\ \E n \in 0..MaxFragments :
          \E f \in [1..n -> 1..Len(Fragments)] : source = Concat(f)
    /\ stripped = <<>>
    /\ restripped = <<>>
    /\ parseResult = [classes |-> <<>>, errors |-> <<>>]
    /\ console = <<>>
    /\ NoCompare
    /\ NoReduce
    /\ NoFiles
    /\ pc = "input"

\* parseJavaFile(source), with what extractClassBodies hands to console.error.
Parse ==
    /\ pc = "input"
    /\ stripped' = removeComments(source)
    /\ parseResult' = parseJavaFile(source)
    /\ console' = console \o extractClassBodies(removeComments(source)).logged
    /\ pc' = "done"
    /\ UNCHANGED <<source, restripped, compareVars, reduceVars, fileVars>>

NextParse == Parse

SpecParse == InitParse /\ [][NextParse]_vars

\* The positions of the stripped text at which a class declaration starts.
Declarations(s) == {i \in 1..Len(s) : ClassMatchAt(s, i).found}

\* The brace at position p is closed: some later position has one more `}`
\* than `{` between the brace and itself.
BraceClosed(s, p) ==
    \E q \in (p + 1)..Len(s) :
        Cardinality({k \in (p + 1)..q : s[k] = "}"})
            = Cardinality({k \in (p + 1)..q : s[k] = "{"}) + 1

Balanced(s) == {i \in Declarations(s) : BraceClosed(s, ClassMatchAt(s, i).last)}
Unbalanced(s) == Declarations(s) \ Balanced(s)

\* text occurs in s.
Occurs(text, s) == \E i \in 1..Len(s) : LiteralAt(s, i, text)

\* The class records are those of the balanced declarations, in source order.
BalancedDeclarationsReturned ==
    /\ Len(parseResult.classes) = Cardinality(Balanced(stripped))
    /\ \A i \in Balanced(stripped) :
          LET k == Cardinality({j \in Balanced(stripped) : j <= i})
          IN  /\ parseResult.classes[k].name = ClassMatchAt(stripped, i).name
              /\ parseResult.classes[k].extends = ClassMatchAt(stripped, i).extendsFrom

\* Every unbalanced declaration is reported on the console, in source order.
UnbalancedDeclarationsLogged ==
    /\ Len(console) = Cardinality(Unbalanced(stripped))
    /\ \A i \in Unbalanced(stripped) :
          LET k == Cardinality({j \in Unbalanced(stripped) : j <= i})
          IN  console[k] = UnmatchedBraces(ClassMatchAt(stripped, i).name)

ParseDropsOnlyUnbalanced ==
    pc = "done" => BalancedDeclarationsReturned /\ UnbalancedDeclarationsLogged

\* C6: a class declaration whose opening brace is never closed yields no
\* class record and an advisory for that class in the errors list, and the
\* balanced declarations of the source are still returned.
C6_UnbalancedClassAdvisory ==
    pc = "done" =>
        /\ BalancedDeclarationsReturned
        /\ \A i \in Unbalanced(stripped) :
              \E e \in 1..Len(parseResult.errors) :
                  Occurs(ClassMatchAt(stripped, i).name, parseResult.errors[e])

(***************************************************************************)
(* The reduction run: the two signature reducers on one member list each.   *)
(***************************************************************************)

\* Bound: the number of member records of each list.
MaxMembers == 3

\* Two attributes of one signature, and one of another signature.
ReduceAttributePool ==
    {[modifier |-> Public, type |-> TypeInt, name |-> <<"x">>],
     [modifier |-> Public, type |-> TypeInt, name |-> <<"y">>],
     [modifier |-> Private, type |-> TypeString, name |-> <<"z">>]}

\* Two methods of one signature, and one whose signature has the same
\* parameter types in the other order.
ReduceMethodPool ==
    {[modifier |-> Public, returnType |-> TypeVoid, methodName |-> <<"f">>,
      parameters |-> <<[type |-> TypeInt, name |-> <<"n">>],
                       [type |-> TypeString, name |-> <<"s">>]>>],
     [modifier |-> Public, returnType |-> TypeVoid, methodName |-> <<"h">>,
      parameters |-> <<[type |-> TypeInt, name |-> <<"i">>],
                       [type |-> TypeString, name |-> <<"t">>]>>],
     [modifier |-> Public, returnType |-> TypeVoid, methodName |-> <<"k">>,
      parameters |-> <<[type |-> TypeString, name |-> <<"s">>],
                       [type |-> TypeInt, name |-> <<"n">>]>>]}

InitReduce ==
    /\ \E n \in 0..MaxMembers : \E k \in 0..MaxMembers :
          /\ inAttributes \in [1..n -> ReduceAttributePool]
          /\ inMethods \in [1..k -> ReduceMethodPool]
    /\ attrSignature = <<>>
    /\ methodSignature = <<>>
    /\ NoCompare
    /\ NoParse
    /\ NoFiles
    /\ pc = "input"

\* const aAttrSignature = checkAttributeSignature(aClass.attributes)
ReduceAttributes ==
    /\ pc = "input"
    /\ attrSignature' = checkAttributeSignature(inAttributes)
    /\ pc' = "attributes"
    /\ UNCHANGED <<inAttributes, inMethods, methodSignature, compareVars, parseVars, fileVars>>

\* const aMethodSignature = checkMethodSignature(aClass.methods)
ReduceMethods ==
    /\ pc = "attributes"
    /\ methodSignature' = checkMethodSignature(inMethods)
    /\ pc' = "done"
    /\ UNCHANGED <<inAttributes, inMethods, attrSignature, compareVars, parseVars, fileVars>>

NextReduce == ReduceAttributes \/ ReduceMethods

SpecReduce == InitReduce /\ [][NextReduce]_vars

\* list with its records rearranged by the permutation p of its positions.
Shuffled(list, p) == [i \in 1..Len(list) |-> list[p[i]]]

\* The entries have one entry for the signature at each first occurrence, at
\* the rank of that occurrence, and no other entry.
AttributeEntriesInFirstOccurrenceOrder(entries, attrList) ==
    LET sigs == AttributeSignatures(attrList)
    IN  /\ Len(entries) = Cardinality(Range(sigs))
        /\ \A i \in 1..Len(sigs) :
              FirstOccurrence(sigs, i) =>
                  /\ entries[Rank(sigs, i)].modifier = sigs[i][1]
                  /\ entries[Rank(sigs, i)].type = sigs[i][2]

MethodEntriesInFirstOccurrenceOrder(entries, methodList) ==
    LET sigs == MethodSignatures(methodList)
    IN  /\ Len(entries) = Cardinality(Range(sigs))
        /\ \A i \in 1..Len(sigs) :
              FirstOccurrence(sigs, i) =>
                  /\ entries[Rank(sigs, i)].modifier = sigs[i][1]
                  /\ entries[Rank(sigs, i)].returnType = sigs[i][2]
                  /\ entries[Rank(sigs, i)].parameters = Join(sigs[i][3], <<",">>)

\* C10: each reducer returns one entry per distinct signature, in the order
\* of the signatures' first occurrences; on any rearrangement of the list it
\* returns the same entries (signature and count), as many, listed in the
\* order of the first occurrences in the rearranged list.
C10_FirstOccurrenceOrderAndShuffle ==
    pc = "done" =>
        /\ AttributeEntriesInFirstOccurrenceOrder(attrSignature, inAttributes)
        /\ MethodEntriesInFirstOccurrenceOrder(methodSignature, inMethods)
        /\ \A p \in Permutations(1..Len(inAttributes)) :
              LET again == checkAttributeSignature(Shuffled(inAttributes, p))
              IN  /\ Range(again) = Range(attrSignature)
                  /\ Len(again) = Len(attrSignature)
                  /\ AttributeEntriesInFirstOccurrenceOrder(again, Shuffled(inAttributes, p))
        /\ \A p \in Permutations(1..Len(inMethods)) :
              LET again == checkMethodSignature(Shuffled(inMethods, p))
              IN  /\ Range(again) = Range(methodSignature)
                  /\ Len(again) = Len(methodSignature)
                  /\ MethodEntriesInFirstOccurrenceOrder(again, Shuffled(inMethods, p))

\* Witness of C10: an attribute list whose first and third records share a
\* signature the second lacks, and a method list of two signatures, one of
\* them repeated; some rearrangement of each list is listed in another order.
C10_Witness ==
    /\ pc = "done"
    /\ Len(inAttributes) = 3
    /\ AttributeSignatures(inAttributes)[1] = AttributeSignatures(inAttributes)[3]
    /\ AttributeSignatures(inAttributes)[1] # AttributeSignatures(inAttributes)[2]
    /\ inAttributes[1].name # inAttributes[3].name
    /\ Len(attrSignature) = 2
    /\ attrSignature[1].count = 2
    /\ \E p \in Permutations(1..Len(inAttributes)) :
          checkAttributeSignature(Shuffled(inAttributes, p)) # attrSignature
    /\ Len(methodSignature) < Len(inMethods)
    /\ \E p \in Permutations(1..Len(inMethods)) :
          checkMethodSignature(Shuffled(inMethods, p)) # methodSignature

(***************************************************************************)
(* The reduction run on records whose type strings may hold the `|` that    *)
(* joins the parts of a signature string.                                   *)
(***************************************************************************)

TypeUnion == <<"a", "|", "b">>
TypeOrLeft == <<"a", " ", "|", "|">>

\* Attributes of the types "int" and "a|b".
DelimiterAttributePool ==
    {[modifier |-> Public, type |-> TypeInt, name |-> <<"x">>],
     [modifier |-> Public, type |-> TypeUnion, name |-> <<"y">>],
     [modifier |-> Private, type |-> TypeUnion, name |-> <<"z">>]}

\* public void f(int n), and the two records parseJavaMethods returns for
\* `else if (a || b) {` and `else if (int n) {`.
DelimiterMethodPool ==
    {[modifier |-> Public, returnType |-> TypeVoid, methodName |-> <<"f">>,
      parameters |-> <<[type |-> TypeInt, name |-> <<"n">>]>>],
     [modifier |-> Default, returnType |-> <<"e", "l", "s", "e">>,
      methodName |-> <<"i", "f">>,
      parameters |-> <<[type |-> TypeOrLeft, name |-> <<"b">>]>>],
     [modifier |-> Default, returnType |-> <<"e", "l", "s", "e">>,
      methodName |-> <<"i", "f">>,
      parameters |-> <<[type |-> TypeInt, name |-> <<"n">>]>>]}

InitDelimiter ==
    /\ \E n \in 0..MaxMembers : \E k \in 0..MaxMembers :
          /\ inAttributes \in [1..n -> DelimiterAttributePool]
          /\ inMethods \in [1..k -> DelimiterMethodPool]
    /\ attrSignature = <<>>
    /\ methodSignature = <<>>
    /\ NoCompare
    /\ NoParse
    /\ NoFiles
    /\ pc = "input"

SpecDelimiter == InitDelimiter /\ [][NextReduce]_vars

\* Each entry has a count of at least 1, the number of records of the list
\* that have the signature the entry stands for: the signature that first
\* occurs as the k-th distinct one, for the k-th entry.
CountsAreOccurrences(entries, sigs) ==
    \A k \in 1..Len(entries) :
        /\ entries[k].count >= 1
        /\ \E i \in 1..Len(sigs) :
              /\ FirstOccurrence(sigs, i)
              /\ Rank(sigs, i) = k
              /\ entries[k].count = Occurrences(sigs, sigs[i])

\* C11: every entry of a reducer has a count of at least 1, equal to the
\* number of input records with the entry's signature, whatever the type
\* strings are, strings with `|` in them included.
C11_CountAtLeastOne ==
    pc = "done" =>
        /\ CountsAreOccurrences(attrSignature, AttributeSignatures(inAttributes))
        /\ CountsAreOccurrences(methodSignature, MethodSignatures(inMethods))

(***************************************************************************)
(* The parsing run on one class A whose body is put together from member    *)
(* declarations.                                                            *)
(***************************************************************************)

\* "public A(int n){}", "A(){}", "public int g(){}", "void f(int n){}" and
\* "int x;".
MemberFragments ==
    << <<"p", "u", "b", "l", "i", "c", " ", "A", "(", "i", "n", "t", " ", "n", ")",
         "{", "}">>,
       <<"A", "(", ")", "{", "}">>,
       <<"p", "u", "b", "l", "i", "c", " ", "i", "n", "t", " ", "g", "(", ")", "{", "}">>,
       <<"v", "o", "i", "d", " ", "f", "(", "i", "n", "t", " ", "n", ")", "{", "}">>,
       <<"i", "n", "t", " ", "x", ";">> >>

\* The text of the member fragments picked by the index sequence f.
RECURSIVE ConcatMembers(_)
ConcatMembers(f) ==
    IF Len(f) = 0 THEN <<>> ELSE MemberFragments[Head(f)] \o ConcatMembers(Tail(f))

InitMembers ==
    /\ \E n \in 0..MaxFragments :
          \E f \in [1..n -> 1..Len(MemberFragments)] :
              source = Fragments[1] \o ConcatMembers(f) \o <<"}">>
    /\ stripped = <<>>
    /\ restripped = <<>>
    /\ parseResult = [classes |-> <<>>, errors |-> <<>>]
    /\ console = <<>>
    /\ NoCompare
    /\ NoReduce
    /\ NoFiles
    /\ pc = "input"

SpecMembers == InitMembers /\ [][NextParse]_vars

\* A member declaration can start at position i: at the start of the text or
\* right after a brace or a semicolon.
MemberStart(s, i) == i = 1 \/ s[i - 1] \in {"{", "}", ";"}

\* The position after the access modifier at i, i itself when there is none.
AfterModifier(s, i) == IF ModifierAt(s, i).found THEN ModifierAt(s, i).next ELSE i

\* `[modifier] ClassName(` starts at position i.
ConstructorAt(s, i, className) ==
    /\ MemberStart(s, i)
    /\ LiteralAt(s, AfterModifier(s, i), className)
    /\ CharAt(s, AfterModifier(s, i) + Len(className), "(")

\* `[modifier] ReturnType name(params) {` starts at position i.
MethodAt(s, i) ==
    LET decl == DeclaratorAt(s, AfterModifier(s, i))
    IN  /\ MemberStart(s, i)
        /\ decl.found
        /\ ParameterListAt(s, decl.next).found

MethodStarts(s) == {i \in 1..Len(s) : MethodAt(s, i)}

\* C12: a constructor declaration, with or without an access modifier,
\* yields no method record, and each method declaration yields exactly one:
\* the method records of the class are those of its method declarations, in
\* source order, and none bears the name of the class.
C12_NoRecordForConstructor ==
    pc = "done" =>
        \A c \in 1..Len(parseResult.classes) :
            LET methods == parseResult.classes[c].methods
            IN  /\ Len(methods) = Cardinality(MethodStarts(stripped))
                /\ \A i \in MethodStarts(stripped) :
                      LET k == Cardinality({j \in MethodStarts(stripped) : j <= i})
                          decl == DeclaratorAt(stripped, AfterModifier(stripped, i))
                      IN  /\ methods[k].methodName = decl.name
                          /\ methods[k].returnType = decl.type
                /\ \A k \in 1..Len(methods) :
                      methods[k].methodName # parseResult.classes[c].name

\* The part of C12 that is about constructors without an access modifier and
\* about methods: the class has no constructor with an access modifier.
NoModifiedConstructor ==
    \A i \in 1..Len(stripped) :
        ConstructorAt(stripped, i, <<"A">>) => ~ModifierAt(stripped, i).found

MethodsParsedWithoutModifiedConstructor ==
    NoModifiedConstructor => C12_NoRecordForConstructor

(***************************************************************************)
(* app.tsx: the effect that pools the classes of the files of each side and *)
(* compares the two pools.                                                  *)
(***************************************************************************)

\* files.map((file) => parseJavaFile(file.content))
\*      .reduce((acc, result) => acc.concat(result.classes), [])
RECURSIVE combineClasses(_)
combineClasses(files) ==
    IF Len(files) = 0 THEN <<>>
    ELSE parseJavaFile(Head(files).content).classes \o combineClasses(Tail(files))

\* What the parsing of the files hands to console.error.
RECURSIVE LoggedFor(_)
LoggedFor(files) ==
    IF Len(files) = 0 THEN <<>>
    ELSE extractClassBodies(removeComments(Head(files).content)).logged
         \o LoggedFor(Tail(files))

\* Bound: the number of files of a side, and of a handleFiles call.
MaxFiles == 3

\* A.java "class X{int x;}", B.java "class X{void f(){}}",
\* C.java "class X extends P{}", D.java "class Y{}class X{String z;}" and
\* E.java "class Y extends X{int x;}", in the order of their names.
PooledFiles ==
    << [fileName |-> <<"A", ".", "j", "a", "v", "a">>,
        content |->
            <<"c", "l", "a", "s", "s", " ", "X", "{", "i", "n", "t", " ", "x", ";", "}">>],
       [fileName |-> <<"B", ".", "j", "a", "v", "a">>,
        content |->
            <<"c", "l", "a", "s", "s", " ", "X", "{", "v", "o", "i", "d", " ", "f", "(",
              ")", "{", "}", "}">>],
       [fileName |-> <<"C", ".", "j", "a", "v", "a">>,
        content |->
            <<"c", "l", "a", "s", "s", " ", "X", " ", "e", "x", "t", "e", "n", "d", "s",
              " ", "P", "{", "}">>],
       [fileName |-> <<"D", ".", "j", "a", "v", "a">>,
        content |->
            <<"c", "l", "a", "s", "s", " ", "Y", "{", "}", "c", "l", "a", "s", "s", " ",
              "X", "{", "S", "t", "r", "i", "n", "g", " ", "z", ";", "}">>],
       [fileName |-> <<"E", ".", "j", "a", "v", "a">>,
        content |->
            <<"c", "l", "a", "s", "s", " ", "Y", " ", "e", "x", "t", "e", "n", "d", "s",
              " ", "X", "{", "i", "n", "t", " ", "x", ";", "}">>] >>

\* The file lists of 1 to MaxFiles files picked from PooledFiles, in the
\* order of their names, which is the order onFilesContent delivers.
FileLists ==
    UNION {{[i \in 1..n |-> PooledFiles[f[i]]] :
                f \in {g \in [1..n -> 1..Len(PooledFiles)] :
                          \A i \in 1..(n - 1) : g[i] < g[i + 1]}}
           : n \in 1..MaxFiles}

InitPool ==
    /\ teacherFiles \in FileLists
    /\ studentFiles \in FileLists
    /\ fileList = <<>>
    /\ filesArray = <<>>
    /\ pending = {}
    /\ delivered = <<>>
    /\ NoCompare
    /\ NoReduce
    /\ NoParse
    /\ pc = "input"

\* useEffect(() => { if (teacherFiles.length > 0 && studentFiles.length > 0)
\* { ...; setOutput(resultTree) } }, [teacherFiles, studentFiles])
CompareFiles ==
    /\ pc = "input"
    /\ Len(teacherFiles) > 0
    /\ Len(studentFiles) > 0
    /\ a' = combineClasses(teacherFiles)
    /\ b' = combineClasses(studentFiles)
    /\ comparisonTree' = compareParsedClasses(a', b')
    /\ console' = console \o LoggedFor(teacherFiles) \o LoggedFor(studentFiles)
    /\ pc' = "done"
    /\ UNCHANGED <<source, stripped, restripped, parseResult, reduceVars, fileVars>>

NextPool == CompareFiles

SpecPool == InitPool /\ [][NextPool]_vars

\* The records of classes that are the first of their name, in order.
RECURSIVE KeepEarliest(_)
KeepEarliest(classes) ==
    IF Len(classes) = 0 THEN <<>>
    ELSE LET front == SubSeq(classes, 1, Len(classes) - 1)
             last == classes[Len(classes)]
         IN  IF HasClass(front, last.name) THEN KeepEarliest(front)
             ELSE Append(KeepEarliest(front), last)

\* C13: when several records of A or of B bear one name, the result has a
\* single node for the name, and it is the result for the lists that keep
\* only the earliest record of each name: later records of a name have no
\* influence.
C13_EarliestRecordOnly ==
    pc = "done" =>
        /\ \A i \in 1..Len(a) :
              Cardinality({k \in 1..Len(comparisonTree) :
                              comparisonTree[k].name = a[i].name}) = 1
        /\ comparisonTree = compareParsedClasses(KeepEarliest(a), KeepEarliest(b))

\* Witness of C13: A and B each pool two records of one name that differ, the
\* name has its node, and the later records would have given another node.
C13_Witness ==
    /\ pc = "done"
    /\ \E i, j \in 1..Len(a) : i < j /\ a[i].name = a[j].name /\ a[i] # a[j]
    /\ \E i, j \in 1..Len(b) : i < j /\ b[i].name = b[j].name /\ b[i] # b[j]
    /\ Len(KeepEarliest(a)) < Len(a)
    /\ Len(comparisonTree) = Len(KeepEarliest(a))
    /\ \E k \in 1..Len(comparisonTree) :
          /\ HasClass(b, comparisonTree[k].name)
          /\ comparisonTree[k] #
                PresentClassNode(a[FindLastClass(a, comparisonTree[k].name)],
                                 b[FindLastClass(b, comparisonTree[k].name)])

(***************************************************************************)
(* app.tsx: handleFiles, one call: a FileReader per file, and the onload    *)
(* callbacks in whatever order the reads complete.                          *)
(***************************************************************************)

\* The characters of the file names, in the order localeCompare ranks them.
Collation == <<".", "a", "j", "v", "A", "B", "C">>

CollationRank(ch) == CHOOSE r \in 1..Len(Collation) : Collation[r] = ch

\* x.localeCompare(y) for names over the characters of Collation: negative,
\* zero or positive as x sorts before, with or after y.
RECURSIVE LocaleCompare(_, _)
LocaleCompare(x, y) ==
    IF Len(x) = 0 /\ Len(y) = 0 THEN 0
    ELSE IF Len(x) = 0 THEN -1
    ELSE IF Len(y) = 0 THEN 1
    ELSE IF CollationRank(Head(x)) < CollationRank(Head(y)) THEN -1
    ELSE IF CollationRank(Head(x)) > CollationRank(Head(y)) THEN 1
    ELSE LocaleCompare(Tail(x), Tail(y))

\* One step of a stable sort: file goes behind the files of sorted that do
\* not sort after it.
InsertByName(sorted, file) ==
    LET behind == {i \in 1..Len(sorted) :
                      LocaleCompare(sorted[i].fileName, file.fileName) > 0}
        at == IF behind = {} THEN Len(sorted) + 1
              ELSE CHOOSE i \in behind : \A j \in behind : i <= j
    IN  SubSeq(sorted, 1, at - 1) \o <<file>> \o SubSeq(sorted, at, Len(sorted))

\* filesArray.sort((a, b) => a.fileName.localeCompare(b.fileName)): a stable
\* sort, files of one name stay in the order they have in the array.
RECURSIVE SortByFileName(_)
SortByFileName(files) ==
    IF Len(files) = 0 THEN <<>>
    ELSE InsertByName(SortByFileName(SubSeq(files, 1, Len(files) - 1)),
                      files[Len(files)])

\* The files a user can hand over: two files named A.java (of different
\* folders, with different texts), B.java and C.java.
ReadableFiles ==
    {
     [name |-> <<"A", ".", "j", "a", "v", "a">>,
      text |-> <<"c", "l", "a", "s", "s", " ", "X", "{", "}">>],
     [name |-> <<"A", ".", "j", "a", "v", "a">>,
      text |-> <<"c", "l", "a", "s", "s", " ", "Y", "{", "}">>],
     [name |-> <<"B", ".", "j", "a", "v", "a">>,
      text |-> <<"c", "l", "a", "s", "s", " ", "X", "{", "}">>],
     [name |-> <<"C", ".", "j", "a", "v", "a">>,
      text |-> <<"c", "l", "a", "s", "s", " ", "Z", "{", "}">>]}

\* { content: text, fileName: file.name }
FileDataOf(file) == [content |-> file.text, fileName |-> file.name]

InitFiles ==
    /\ \E n \in 1..MaxFiles :
          /\ fileList \in [1..n -> ReadableFiles]
          /\ \A i, j \in 1..n : i # j => fileList[i] # fileList[j]
    /\ filesArray = <<>>
    /\ pending = {}
    /\ delivered = <<>>
    /\ teacherFiles = <<>>
    /\ studentFiles = <<>>
    /\ NoCompare
    /\ NoReduce
    /\ NoParse
    /\ pc = "input"

\* handleFiles(fileList): a new filesArray, and a reader started on each file.
HandleFiles ==
    /\ pc = "input"
    /\ filesArray' = <<>>
    /\ pending' = 1..Len(fileList)
    /\ pc' = "reading"
    /\ UNCHANGED <<fileList, delivered, teacherFiles, studentFiles,
                   compareVars, reduceVars, parseVars>>

\* reader.onload of the file at position i, its read completed with text; the
\* box is the teacher's, so onFilesContent is setTeacherFiles.
Onload(i) ==
    /\ pc = "reading"
    /\ i \in pending
    /\ pending' = pending \ {i}
    /\ LET pushed == Append(filesArray, FileDataOf(fileList[i]))
       IN  IF Len(pushed) = Len(fileList)
           THEN /\ filesArray' = SortByFileName(pushed)
                /\ delivered' = Append(delivered, SortByFileName(pushed))
                /\ teacherFiles' = SortByFileName(pushed)
           ELSE /\ filesArray' = pushed
                /\ UNCHANGED <<delivered, teacherFiles>>
    /\ UNCHANGED <<fileList, studentFiles, compareVars, reduceVars, parseVars, pc>>

NextFiles == HandleFiles \/ \E i \in 1..MaxFiles : Onload(i)

SpecFiles == InitFiles /\ [][NextFiles]_vars

\* The list delivered when the reads complete in the order of the file list.
DeliveryInListOrder == SortByFileName([i \in 1..Len(fileList) |-> FileDataOf(fileList[i])])

SortedByFileName(files) ==
    \A i, j \in 1..Len(files) :
        i < j => LocaleCompare(files[i].fileName, files[j].fileName) <= 0

\* files holds each file of the file list once.
HoldsAllFiles(files) ==
    /\ Len(files) = Len(fileList)
    /\ \A i \in 1..Len(fileList) :
          Cardinality({k \in 1..Len(files) : files[k] = FileDataOf(fileList[i])}) = 1

\* C14: whatever the order of the onload callbacks, onFilesContent is called
\* once, when all of them have run and not before, with all the files
\* sorted by fileName, and the list it gets is the same for every order.
C14_DeliveryIndependentOfOrder ==
    pc = "reading" =>
        /\ Len(delivered) = (IF pending = {} THEN 1 ELSE 0)
        /\ Len(delivered) = 1 =>
              /\ HoldsAllFiles(delivered[1])
              /\ SortedByFileName(delivered[1])
              /\ delivered[1] = DeliveryInListOrder

\* The file list has no two files of one name.
DistinctFileNames ==
    \A i, j \in 1..Len(fileList) :
        i # j => LocaleCompare(fileList[i].name, fileList[j].name) # 0

DeliveryOfDistinctNames == DistinctFileNames => C14_DeliveryIndependentOfOrder

====
